---- MODULE Spec2Model ----
(***************************************************************************)
(* A state-machine model of train.py, the training driver of the YOLO      *)
(* model set: main(args) from the first statement to the final store,      *)
(* with the Keras fit loop it calls twice and the callbacks it wires.      *)
(*                                                                         *)
(* Python's None is the string "None".  A str that the code inspects       *)
(* (model_type) is a sequence of one-character strings; a str that is only *)
(* tested for truth (weights_path, val_annotation_file) is a TLA+ string,  *)
(* "" being the empty, false one.  The float val_split is a number of      *)
(* tenths.  Callbacks are named by the variable main binds them to.        *)
(***************************************************************************)
EXTENDS Integers, Sequences, FiniteSets, TLC

\* ------------------------------------------------------------------ bounds
\* init_epoch, transfer_epoch and total_epoch each range over 0..MaxEpoch
MaxEpoch == 2
\* the annotation files hold at most MaxData samples together
MaxData == 3
\* val_loss of an epoch ranges over 1..MaxLoss
MaxLoss == 2
\* number of layers of the train model
NumLayers == 3

\* ------------------------------------------------------- python primitives
None == "None"

Min(a, b) == IF a < b THEN a ELSE b
Max(a, b) == IF a > b THEN a ELSE b

\* the position a slice bound or list.insert index i denotes in a list of
\* length n: negative counts from the end, and the result is clamped
PyPos(i, n) == IF i < 0 THEN Max(i + n, 0) ELSE Min(i, n)

\* s[:n]
SliceTo(s, n) == SubSeq(s, 1, PyPos(n, Len(s)))

\* s[n:]
SliceFrom(s, n) == SubSeq(s, PyPos(n, Len(s)) + 1, Len(s))

\* s.insert(i, x)
PyInsert(s, i, x) ==
    SubSeq(s, 1, PyPos(i, Len(s))) \o <<x>> \o SubSeq(s, PyPos(i, Len(s)) + 1, Len(s))

Contains(s, x) == \E i \in 1..Len(s) : s[i] = x

IndexOf(s, x) == CHOOSE i \in 1..Len(s) : s[i] = x /\ \A j \in 1..(i - 1) : s[j] # x

\* s.remove(x): drops the first occurrence (the caller checks Contains)
PyRemove(s, x) == SubSeq(s, 1, IndexOf(s, x) - 1) \o SubSeq(s, IndexOf(s, x) + 1, Len(s))

\* int(num / den) for den > 0: truncation toward zero
PyInt(num, den) == IF num >= 0 THEN num \div den ELSE -((-num) \div den)

\* a // b for b > 0: floor division
FloorDiv(a, b) == a \div b

\* s.startswith(p)
startswith(s, p) == Len(s) >= Len(p) /\ SubSeq(s, 1, Len(p)) = p

\* truth value of an optional str option
Truthy(x) == x # None /\ x # ""

\* ------------------------------------------------------------ CLI options
\* an int option left at its default None (--freeze_level)
NoneInt == -1

YOLO == <<"y", "o", "l", "o">>
TINY == <<"t", "i", "n", "y", "_">>
SCALED == <<"s", "c", "a", "l", "e", "d", "_">>

\* the string  <pre>yolo<v><suf>
TypeName(pre, v, suf) == pre \o YOLO \o <<v>> \o suf

\* --model_type values tried: each family name, bare, behind tiny_ and
\* scaled_ and behind another character, with the "_<backbone>" tail, with
\* a tail that lacks the underscore and with no tail
ModelTypes ==
    { TypeName(pre, v, suf) :
        pre \in {<< >>, TINY, SCALED, <<"x">>},
        v \in {"2", "3", "4", "5"},
        suf \in {<<"_", "m">>, <<"m">>, << >>} }

\* --weights_path, --val_annotation_file: None, an empty and a real path
PathOptions == {None, "", "file"}
\* --freeze_level choices
FreezeLevels == {NoneInt, 0, 1, 2}
\* --decay_type and --average_type choices
DecayTypes == {None, "cosine", "exponential", "polynomial", "piecewise_constant"}
AverageTypes == {None, "ema", "swa", "lookahead"}
\* --val_split in tenths: negative, zero, the default 0.1, a half, one, more
ValSplits == {-5, 0, 1, 5, 10, 15}
\* --model_input_shape after the split at "x"
InputShapes == {<<416, 416>>, <<416, 100>>}

\* the options at their argparse defaults, with a short training schedule
DefaultArgs ==
    [ model_type |-> TypeName(<< >>, "3", <<"_", "m">>),
      model_input_shape |-> <<416, 416>>,
      weights_path |-> None,
      val_annotation_file |-> None,
      val_split |-> 1,
      batch_size |-> 16,
      optimizer |-> "adam",
      average_type |-> None,
      decay_type |-> None,
      transfer_epoch |-> 1,
      freeze_level |-> NoneInt,
      init_epoch |-> 0,
      total_epoch |-> 2,
      data_shuffle |-> FALSE,
      gpu_num |-> 1,
      model_pruning |-> FALSE,
      quantize_aware_training |-> FALSE,
      eval_online |-> FALSE ]

\* the samples 1..n in file order
Samples(first, n) == [i \in 1..n |-> first + i - 1]

\* what get_dataset reads from --annotation_file and --val_annotation_file
DefaultAnnotations == [train |-> Samples(1, 2), val |-> Samples(3, 1)]

AnnotationFiles ==
    { [train |-> Samples(1, n), val |-> Samples(n + 1, m)] :
        n \in 0..MaxData, m \in 0..MaxData }

\* the runs that vary the model type and the input shape
FamilyRuns ==
    { [args |-> [DefaultArgs EXCEPT !.model_type = m, !.model_input_shape = s],
       annotations |-> DefaultAnnotations] :
        m \in ModelTypes, s \in InputShapes }

\* the runs that vary how the model is frozen, distributed and pruned
FreezeRuns ==
    { [args |-> [DefaultArgs EXCEPT !.weights_path = w, !.freeze_level = f,
                                    !.gpu_num = g, !.model_pruning = p,
                                    !.quantize_aware_training = q],
       annotations |-> DefaultAnnotations] :
        w \in PathOptions, f \in FreezeLevels, g \in {1, 2}, p \in BOOLEAN,
        q \in BOOLEAN }

\* the runs that vary the training schedule
EpochRuns ==
    { [args |-> [DefaultArgs EXCEPT !.init_epoch = i, !.transfer_epoch = t,
                                    !.total_epoch = e, !.decay_type = d],
       annotations |-> DefaultAnnotations] :
        i \in 0..MaxEpoch, t \in 0..MaxEpoch, e \in 0..MaxEpoch,
        d \in {None, "cosine"} }

\* the annotation files tried: MaxData samples at most
SmallAnnotationFiles ==
    {x \in AnnotationFiles : Len(x.train) + Len(x.val) <= MaxData}

\* the runs that vary the data set and its split
DataRuns ==
    { [args |-> [DefaultArgs EXCEPT !.val_annotation_file = v, !.val_split = s],
       annotations |-> a] :
        v \in PathOptions, s \in ValSplits, a \in SmallAnnotationFiles }

\* the runs that shuffle the data set after every epoch
ShuffleRuns ==
    { [args |-> [DefaultArgs EXCEPT !.val_annotation_file = v, !.val_split = 5,
                                    !.data_shuffle = TRUE, !.eval_online = TRUE],
       annotations |-> a] :
        v \in {None, "file"}, a \in SmallAnnotationFiles }

\* the runs that vary every option that touches the callback list
CallbackRuns ==
    { [args |-> [DefaultArgs EXCEPT !.quantize_aware_training = q, !.eval_online = e,
                                    !.data_shuffle = h, !.model_pruning = p,
                                    !.decay_type = d, !.average_type = a],
       annotations |-> DefaultAnnotations] :
        q \in BOOLEAN, e \in BOOLEAN, h \in BOOLEAN, p \in BOOLEAN,
        d \in DecayTypes, a \in AverageTypes }

Runs ==
    FamilyRuns \cup FreezeRuns \cup EpochRuns \cup DataRuns \cup ShuffleRuns
    \cup CallbackRuns

\* ------------------------------------------------------------------ state
VARIABLES
    args,           \* the parsed command line
    annotations,    \* the contents of the annotation files
    pc,             \* the statement of main that runs next
    error,          \* the exception that ended main, or None
    freeze_level,   \* main's freeze_level
    callbacks,      \* main's callbacks list
    dataset,        \* main's dataset list
    num_train,      \* main's num_train
    num_val,        \* main's num_val
    family,         \* get_train_model, data_generator and tiny_version
    optimizer,      \* main's optimizer
    model,          \* main's model
    fits,           \* the fit_generator calls made so far, with what each trained
    epoch,          \* the epoch the running fit loop trains next
    stop_training,  \* model.stop_training of the running fit loop
    saved_loss,     \* per checkpoint callback, the val_loss values it saved at
    last_epoch,     \* what the callbacks did at the end of the latest epoch
    files,          \* the files written under logs/
    trace           \* the pipeline steps taken, in order

vars == <<args, annotations, pc, error, freeze_level, callbacks, dataset, num_train,
          num_val, family, optimizer, model, fits, epoch, stop_training, saved_loss,
          last_epoch, files, trace>>

NoFamily == [get_train_model |-> None, data_generator |-> None, tiny_version |-> FALSE]

NoOptimizer == [optim_type |-> None, average_type |-> None, decay_type |-> None,
                decay_steps |-> NoneInt]

NoModel == [built |-> FALSE, constructor |-> None, model_type |-> << >>, freeze_level |-> NoneInt,
            trainable |-> << >>, compiled_trainable |-> << >>,
            optimizer |-> NoOptimizer, pruning |-> FALSE, quantize |-> FALSE,
            distributed |-> FALSE]

NoEpoch == [epoch |-> NoneInt, val_loss |-> 0, earlier |-> {}, quant_saved |-> FALSE,
            quant_dir |-> None]

Init ==
    /\ \E r \in Runs : args = r.args /\ annotations = r.annotations
    /\ pc = "start"
    /\ error = None
    /\ freeze_level = NoneInt
    /\ callbacks = << >>
    /\ dataset = << >>
    /\ num_train = 0
    /\ num_val = 0
    /\ family = NoFamily
    /\ optimizer = NoOptimizer
    /\ model = NoModel
    /\ fits = << >>
    /\ epoch = 0
    /\ stop_training = FALSE
    /\ saved_loss = [checkpoint |-> {}, avg_checkpoint |-> {}]
    /\ last_epoch = NoEpoch
    /\ files = {}
    /\ trace = << >>

\* ------------------------------------------------ main, up to the model
Step(name) == trace' = Append(trace, name)

Raise(exc) == pc' = "raised" /\ error' = exc

\* freeze level according to the CLI options
FreezeLevelOf(a) ==
    IF a.freeze_level # NoneInt THEN a.freeze_level
    ELSE IF Truthy(a.weights_path) THEN 0
    ELSE 1

GetFreezeLevel ==
    /\ pc = "start"
    /\ freeze_level' = FreezeLevelOf(args)
    /\ pc' = "callbacks"
    /\ UNCHANGED <<args, annotations, error, callbacks, dataset, num_train, num_val,
                   family, optimizer, model, fits, epoch, stop_training, saved_loss,
                   last_epoch, files, trace>>

\* the callbacks list as first built
InitialCallbacks(a) ==
    <<"logging", "checkpoint", "reduce_lr", "early_stopping", "terminate_on_nan",
      "checkpoint_clean">>
    \o (IF a.quantize_aware_training THEN <<"checkpoint_q">> ELSE << >>)

BuildCallbacks ==
    /\ pc = "callbacks"
    /\ callbacks' = InitialCallbacks(args)
    /\ pc' = "dataset"
    /\ UNCHANGED <<args, annotations, error, freeze_level, dataset, num_train, num_val,
                   family, optimizer, model, fits, epoch, stop_training, saved_loss,
                   last_epoch, files, trace>>

\* mutant: num_train is taken after the val data set was appended
SplitOfCountsAfterExtend(a, ann) ==
    IF Truthy(a.val_annotation_file)
    THEN <<ann.train \o ann.val, Len(ann.train \o ann.val), Len(ann.val)>>
    ELSE <<ann.train,
           Len(ann.train) - PyInt(Len(ann.train) * a.val_split, 10),
           PyInt(Len(ann.train) * a.val_split, 10)>>

\* train and val data set: <<dataset, num_train, num_val>>
SplitOf(a, ann) ==
    IF Truthy(a.val_annotation_file)
    THEN <<ann.train \o ann.val, Len(ann.train), Len(ann.val)>>
    ELSE <<ann.train,
           Len(ann.train) - PyInt(Len(ann.train) * a.val_split, 10),
           PyInt(Len(ann.train) * a.val_split, 10)>>

SplitDataset ==
    /\ pc = "dataset"
    /\ dataset' = SplitOf(args, annotations)[1]
    /\ num_train' = SplitOf(args, annotations)[2]
    /\ num_val' = SplitOf(args, annotations)[3]
    /\ Step("dataset_split")
    /\ pc' = "input_shape"
    /\ UNCHANGED <<args, annotations, error, freeze_level, callbacks, family, optimizer,
                   model, fits, epoch, stop_training, saved_loss, last_epoch, files>>

\* the model input shape check
InputShapeOk(shape) == shape[1] % 32 = 0 /\ shape[2] % 32 = 0

CheckInputShape ==
    /\ pc = "input_shape"
    /\ IF InputShapeOk(args.model_input_shape)
       THEN pc' = "model_type" /\ error' = error
       ELSE Raise("AssertionError")
    /\ UNCHANGED <<args, annotations, freeze_level, callbacks, dataset, num_train,
                   num_val, family, optimizer, model, fits, epoch, stop_training,
                   saved_loss, last_epoch, files, trace>>

Family(get_train_model, data_generator, tiny_version) ==
    [get_train_model |-> get_train_model, data_generator |-> data_generator,
     tiny_version |-> tiny_version]

\* mutant: the tiny entrance tests tiny_yolo3_ only
FamilyOfNoTinyYolo4(model_type) ==
    IF \/ startswith(model_type, SCALED \o YOLO \o <<"4", "_">>)
       \/ startswith(model_type, YOLO \o <<"5", "_">>)
    THEN Family("get_yolo5_train_model", "yolo5_data_generator_wrapper", FALSE)
    ELSE IF \/ startswith(model_type, YOLO \o <<"3", "_">>)
            \/ startswith(model_type, YOLO \o <<"4", "_">>)
    THEN Family("get_yolo3_train_model", "yolo3_data_generator_wrapper", FALSE)
    ELSE IF startswith(model_type, TINY \o YOLO \o <<"3", "_">>)
    THEN Family("get_yolo3_train_model", "yolo3_data_generator_wrapper", TRUE)
    ELSE IF \/ startswith(model_type, YOLO \o <<"2", "_">>)
            \/ startswith(model_type, TINY \o YOLO \o <<"2", "_">>)
    THEN Family("get_yolo2_train_model", "yolo2_data_generator_wrapper", FALSE)
    ELSE NoFamily

\* model type and data generator by the prefix of model_type; NoFamily where
\* the code raises
FamilyOf(model_type) ==
    IF \/ startswith(model_type, SCALED \o YOLO \o <<"4", "_">>)
       \/ startswith(model_type, YOLO \o <<"5", "_">>)
    THEN Family("get_yolo5_train_model", "yolo5_data_generator_wrapper", FALSE)
    ELSE IF \/ startswith(model_type, YOLO \o <<"3", "_">>)
            \/ startswith(model_type, YOLO \o <<"4", "_">>)
    THEN Family("get_yolo3_train_model", "yolo3_data_generator_wrapper", FALSE)
    ELSE IF \/ startswith(model_type, TINY \o YOLO \o <<"3", "_">>)
            \/ startswith(model_type, TINY \o YOLO \o <<"4", "_">>)
    THEN Family("get_yolo3_train_model", "yolo3_data_generator_wrapper", TRUE)
    ELSE IF \/ startswith(model_type, YOLO \o <<"2", "_">>)
            \/ startswith(model_type, TINY \o YOLO \o <<"2", "_">>)
    THEN Family("get_yolo2_train_model", "yolo2_data_generator_wrapper", FALSE)
    ELSE NoFamily

SelectFamily ==
    /\ pc = "model_type"
    /\ IF FamilyOf(args.model_type) # NoFamily
       THEN /\ family' = FamilyOf(args.model_type)
            /\ Step("select_family")
            /\ pc' = "more_callbacks"
            /\ error' = error
       ELSE /\ Raise("ValueError")
            /\ UNCHANGED <<family, trace>>
    /\ UNCHANGED <<args, annotations, freeze_level, callbacks, dataset, num_train,
                   num_val, optimizer, model, fits, epoch, stop_training, saved_loss,
                   last_epoch, files>>

\* the online evaluation callback, inserted at index -1
WithEval(a, cbs) ==
    IF a.eval_online THEN PyInsert(cbs, -1, "eval_callback") ELSE cbs

\* the data shuffle callback, appended
WithShuffle(a, cbs) ==
    IF a.data_shuffle THEN Append(cbs, "shuffle_callback") ELSE cbs

\* the pruning callbacks, appended
WithPruning(a, cbs) ==
    IF a.model_pruning THEN cbs \o <<"UpdatePruningStep", "PruningSummaries">> ELSE cbs

PrepareCallbacks ==
    /\ pc = "more_callbacks"
    /\ callbacks' = WithPruning(args, WithShuffle(args, WithEval(args, callbacks)))
    /\ pc' = "optimizer"
    /\ UNCHANGED <<args, annotations, error, freeze_level, dataset, num_train, num_val,
                   family, optimizer, model, fits, epoch, stop_training, saved_loss,
                   last_epoch, files, trace>>

\* common.model_utils.get_optimizer: the optimizer as asked for
get_optimizer(optim_type, average_type, decay_type, decay_steps) ==
    [optim_type |-> optim_type, average_type |-> average_type,
     decay_type |-> decay_type, decay_steps |-> decay_steps]

PrepareOptimizer ==
    /\ pc = "optimizer"
    /\ optimizer' = get_optimizer(args.optimizer, None, None, NoneInt)
    /\ pc' = "train_model"
    /\ UNCHANGED <<args, annotations, error, freeze_level, callbacks, dataset, num_train,
                   num_val, family, model, fits, epoch, stop_training, saved_loss,
                   last_epoch, files, trace>>

\* the number of leading layers a freeze level holds fixed:
\* 0 none, 1 the backbone, 2 all but the prediction layer
FrozenLayers(level) ==
    IF level = 0 THEN 0
    ELSE IF level = 1 THEN NumLayers - 2
    ELSE NumLayers - 1

\* get_yolo*_train_model: a compiled train model, frozen to freeze_level
get_train_model(constructor, model_type, quantize, level, opt, pruning, distributed) ==
    [built |-> TRUE, constructor |-> constructor, model_type |-> model_type, freeze_level |-> level,
     trainable |-> [i \in 1..NumLayers |-> i > FrozenLayers(level)],
     compiled_trainable |-> [i \in 1..NumLayers |-> i > FrozenLayers(level)],
     optimizer |-> opt, pruning |-> pruning, quantize |-> quantize,
     distributed |-> distributed]

ConstructModel ==
    /\ pc = "train_model"
    /\ model' = get_train_model(family.get_train_model, args.model_type,
                                args.quantize_aware_training, freeze_level, optimizer,
                                args.model_pruning, args.gpu_num >= 2)
    /\ Step("construct_model")
    /\ pc' = "fit1"
    /\ UNCHANGED <<args, annotations, error, freeze_level, callbacks, dataset, num_train,
                   num_val, family, optimizer, fits, epoch, stop_training, saved_loss,
                   last_epoch, files>>

\* ----------------------------------------------------------- file names
DigitChars == <<"0", "1", "2", "3", "4", "5", "6", "7", "8", "9">>

RECURSIVE Decimal(_)
\* str(n) for n >= 0, as its characters
Decimal(n) ==
    IF n < 10 THEN <<DigitChars[n + 1]>>
    ELSE Decimal(n \div 10) \o <<DigitChars[(n % 10) + 1]>>

\* '{n:03d}'
Pad3(n) ==
    IF n < 10 THEN <<"0", "0">> \o Decimal(n)
    ELSE IF n < 100 THEN <<"0">> \o Decimal(n)
    ELSE Decimal(n)

LAST == <<"l", "a", "s", "t">>

File(dir, name) == [dir |-> dir, name |-> name]

\* the two files save_quantized_model writes; ep is the formatted epoch
save_quantized_model(log_dir, ep) ==
    { File(log_dir, <<"trained_">> \o ep \o <<".h5">>),
      File(log_dir, <<"trained_">> \o ep \o <<"_uint8.tflite">>) }

\* the file a val_loss checkpoint writes in logs/000 (Keras numbers the
\* epochs of a file name from 1)
CheckpointFile(ep, val_loss) ==
    File("logs/000", <<"ep">> \o Pad3(ep + 1) \o <<"-val_loss">> \o Decimal(val_loss)
                     \o <<".h5">>)

\* ------------------------------------------------------------- the fits
\* a fit_generator call: what it is given, and the epochs it trained
FitCall(stage, initial_epoch, epochs) ==
    [ stage |-> stage,
      data_generator |-> family.data_generator,
      train |-> SliceTo(dataset, num_train),
      val |-> SliceFrom(dataset, num_train),
      steps_per_epoch |-> Max(1, FloorDiv(num_train, args.batch_size)),
      validation_steps |-> Max(1, FloorDiv(num_val, args.batch_size)),
      initial_epoch |-> initial_epoch,
      epochs |-> epochs,
      callbacks |-> callbacks,
      trainable |-> model.compiled_trainable,
      optimizer |-> model.optimizer,
      freeze_level |-> model.freeze_level,
      trained |-> << >>,
      stopped |-> FALSE ]

\* transfer training stage: the first fit_generator call
Fit1Call ==
    /\ pc = "fit1"
    /\ fits' = Append(fits, FitCall(1, args.init_epoch,
                                    args.init_epoch + args.transfer_epoch))
    /\ epoch' = args.init_epoch
    /\ stop_training' = FALSE
    /\ Step("fit1_call")
    /\ pc' = "fit1_loop"
    /\ UNCHANGED <<args, annotations, error, freeze_level, callbacks, dataset, num_train,
                   num_val, family, optimizer, model, saved_loss, last_epoch, files>>

\* ModelCheckpoint with save_best_only, mode min: the val_loss is saved at
\* when it is below every val_loss the callback saved at before
Improves(val_loss, saved) == \A x \in saved : val_loss < x

\* whether callback cb of the running fit saves at this epoch's end
Saves(cb, val_loss, nan) ==
    /\ Contains(fits[Len(fits)].callbacks, cb)
    /\ ~nan
    /\ Improves(val_loss, saved_loss[cb])

\* QuantizeModelCheckpoint.on_epoch_end: whether it writes at this epoch's end
QuantSaves(val_loss, nan) == Contains(fits[Len(fits)].callbacks, "checkpoint_q")

\* the orders DatasetShuffleCallBack may leave the data set in
Shuffles(cbs, data) ==
    IF Contains(cbs, "shuffle_callback")
    THEN { p \in [1..Len(data) -> {data[i] : i \in 1..Len(data)}] :
             \A i, j \in 1..Len(data) : p[i] = p[j] => i = j }
    ELSE {data}

\* the files the checkpoint callbacks write at the end of epoch ep
EpochFiles(ep, val_loss, nan) ==
    (IF Saves("checkpoint", val_loss, nan) \/ Saves("avg_checkpoint", val_loss, nan)
     THEN {CheckpointFile(ep, val_loss)} ELSE {})
    \cup (IF QuantSaves(val_loss, nan)
          THEN save_quantized_model("logs/quant", Decimal(ep)) ELSE {})

\* one epoch of the running fit loop, with its callbacks' on_epoch_end;
\* nan: the loss was NaN, so no val_loss checkpoint improves and
\* TerminateOnNaN asks to stop.  EarlyStopping (patience 50) and
\* CheckpointCleanCallBack (keeps 5) stay idle in runs this short.
TrainEpoch ==
    /\ pc \in {"fit1_loop", "fit2_loop"}
    /\ epoch < fits[Len(fits)].epochs
    /\ ~stop_training
    /\ \E val_loss \in 1..MaxLoss, nan \in BOOLEAN :
         /\ fits' = [fits EXCEPT ![Len(fits)].trained = Append(@, epoch),
                                 ![Len(fits)].stopped = nan]
         /\ saved_loss' =
              [cb \in {"checkpoint", "avg_checkpoint"} |->
                 IF Saves(cb, val_loss, nan) THEN saved_loss[cb] \cup {val_loss}
                 ELSE saved_loss[cb]]
         /\ files' = files \cup EpochFiles(epoch, val_loss, nan)
         /\ last_epoch' =
              [epoch |-> epoch, val_loss |-> val_loss,
               earlier |-> IF last_epoch = NoEpoch THEN {}
                           ELSE last_epoch.earlier \cup {last_epoch.val_loss},
               quant_saved |-> QuantSaves(val_loss, nan),
               quant_dir |-> IF QuantSaves(val_loss, nan) THEN "logs/quant" ELSE None]
         /\ stop_training' = nan
    /\ dataset' \in Shuffles(fits[Len(fits)].callbacks, dataset)
    /\ epoch' = epoch + 1
    /\ UNCHANGED <<args, annotations, pc, error, freeze_level, callbacks, num_train,
                   num_val, family, optimizer, model, trace>>

FitDone == ~(epoch < fits[Len(fits)].epochs /\ ~stop_training)

\* mutant: the second stage starts straight after the first fit returns
Fit1ReturnToFit2 ==
    /\ pc = "fit1_loop"
    /\ FitDone
    /\ Step("fit1_return")
    /\ pc' = "fit2"
    /\ UNCHANGED <<args, annotations, error, freeze_level, callbacks, dataset, num_train,
                   num_val, family, optimizer, model, fits, epoch, stop_training,
                   saved_loss, last_epoch, files>>

\* the first fit_generator call returns; main sleeps two seconds
Fit1Return ==
    /\ pc = "fit1_loop"
    /\ FitDone
    /\ Step("fit1_return")
    /\ pc' = "second_stage"
    /\ UNCHANGED <<args, annotations, error, freeze_level, callbacks, dataset, num_train,
                   num_val, family, optimizer, model, fits, epoch, stop_training,
                   saved_loss, last_epoch, files>>

\* ------------------------------------------------------ the second stage
\* mutant: reduce_lr is removed whenever the optimizer is rebuilt
SecondStageCallbacksDropsReduceLr(a, cbs) ==
    IF Truthy(a.decay_type) \/ Truthy(a.average_type)
    THEN LET kept == PyRemove(cbs, "reduce_lr")
         IN  IF a.average_type = "ema" \/ a.average_type = "swa"
             THEN PyInsert(PyRemove(kept, "checkpoint"), -1, "avg_checkpoint")
             ELSE kept
    ELSE cbs

\* mutant: the plain checkpoint stays beside the averaging one
SecondStageCallbacksKeepsCheckpoint(a, cbs) ==
    IF Truthy(a.decay_type) \/ Truthy(a.average_type)
    THEN LET kept == IF Truthy(a.decay_type) THEN PyRemove(cbs, "reduce_lr") ELSE cbs
         IN  IF a.average_type = "ema" \/ a.average_type = "swa"
             THEN PyInsert(kept, -1, "avg_checkpoint")
             ELSE kept
    ELSE cbs

\* the callbacks list after the learning rate decay and weights averager
\* set-up (both remove calls find their element: it was put in the list at
\* the start and nothing removed it since)
SecondStageCallbacks(a, cbs) ==
    IF Truthy(a.decay_type) \/ Truthy(a.average_type)
    THEN LET kept == IF Truthy(a.decay_type) THEN PyRemove(cbs, "reduce_lr") ELSE cbs
         IN  IF a.average_type = "ema" \/ a.average_type = "swa"
             THEN PyInsert(PyRemove(kept, "checkpoint"), -1, "avg_checkpoint")
             ELSE kept
    ELSE cbs

\* the optimizer rebuilt to apply learning rate decay or weights averaging
SecondStageOptimizer(a, opt, n_train) ==
    IF Truthy(a.decay_type) \/ Truthy(a.average_type)
    THEN get_optimizer(a.optimizer, a.average_type, a.decay_type,
                       Max(1, FloorDiv(n_train, a.batch_size))
                         * (a.total_epoch - a.init_epoch - a.transfer_epoch))
    ELSE opt

RebuildOptimizer ==
    /\ pc = "second_stage"
    /\ callbacks' = SecondStageCallbacks(args, callbacks)
    /\ optimizer' = SecondStageOptimizer(args, optimizer, num_train)
    /\ pc' = "unfreeze"
    /\ UNCHANGED <<args, annotations, error, freeze_level, dataset, num_train, num_val,
                   family, model, fits, epoch, stop_training, saved_loss, last_epoch,
                   files, trace>>

\* mutant: the loop starts at the second layer
UnfreezeFromSecond(m) ==
    [m EXCEPT !.trainable = [i \in 1..Len(m.trainable) |-> i > 1 \/ m.trainable[i]]]

\* for i in range(len(model.layers)): model.layers[i].trainable = True
Unfreeze(m) == [m EXCEPT !.trainable = [i \in 1..Len(m.trainable) |-> TRUE]]

\* model.compile(optimizer=...): the layers' trainable flags take effect
Compile(m, opt) == [m EXCEPT !.compiled_trainable = m.trainable, !.optimizer = opt]

\* unfreeze the whole network and recompile, in the strategy scope or not
UnfreezeRecompile ==
    /\ pc = "unfreeze"
    /\ model' = Compile(Unfreeze(model), optimizer)
    /\ Step("unfreeze_recompile")
    /\ pc' = "fit2"
    /\ UNCHANGED <<args, annotations, error, freeze_level, callbacks, dataset, num_train,
                   num_val, family, optimizer, fits, epoch, stop_training, saved_loss,
                   last_epoch, files>>

\* fine-tune stage: the second fit_generator call
Fit2Call ==
    /\ pc = "fit2"
    /\ fits' = Append(fits, FitCall(2, args.init_epoch + args.transfer_epoch,
                                    args.total_epoch))
    /\ epoch' = args.init_epoch + args.transfer_epoch
    /\ stop_training' = FALSE
    /\ Step("fit2_call")
    /\ pc' = "fit2_loop"
    /\ UNCHANGED <<args, annotations, error, freeze_level, callbacks, dataset, num_train,
                   num_val, family, optimizer, model, saved_loss, last_epoch, files>>

Fit2Return ==
    /\ pc = "fit2_loop"
    /\ FitDone
    /\ Step("fit2_return")
    /\ pc' = "strip"
    /\ UNCHANGED <<args, annotations, error, freeze_level, callbacks, dataset, num_train,
                   num_val, family, optimizer, model, fits, epoch, stop_training,
                   saved_loss, last_epoch, files>>

\* sparsity.strip_pruning(model) when model_pruning is set
StripOf(a, m) == IF a.model_pruning THEN [m EXCEPT !.pruning = FALSE] ELSE m

StripPruning ==
    /\ pc = "strip"
    /\ model' = StripOf(args, model)
    /\ Step(IF args.model_pruning THEN "strip_pruning" ELSE "no_pruning")
    /\ pc' = "store"
    /\ UNCHANGED <<args, annotations, error, freeze_level, callbacks, dataset, num_train,
                   num_val, family, optimizer, fits, epoch, stop_training, saved_loss,
                   last_epoch, files>>

\* mutant: the plain save is not in an else branch
FinalFilesAlwaysPlain(a) ==
    (IF a.quantize_aware_training THEN save_quantized_model("logs/000", LAST) ELSE {})
    \cup {File("logs/000", <<"trained_final.h5">>)}

\* the files the final store writes
FinalFiles(a) ==
    IF a.quantize_aware_training THEN save_quantized_model("logs/000", LAST)
    ELSE {File("logs/000", <<"trained_final.h5">>)}

StoreModel ==
    /\ pc = "store"
    /\ files' = files \cup FinalFiles(args)
    /\ Step("store")
    /\ pc' = "done"
    /\ UNCHANGED <<args, annotations, error, freeze_level, callbacks, dataset, num_train,
                   num_val, family, optimizer, model, fits, epoch, stop_training,
                   saved_loss, last_epoch>>

Next ==
    \/ GetFreezeLevel
    \/ BuildCallbacks
    \/ SplitDataset
    \/ CheckInputShape
    \/ SelectFamily
    \/ PrepareCallbacks
    \/ PrepareOptimizer
    \/ ConstructModel
    \/ Fit1Call
    \/ TrainEpoch
    \/ Fit1Return
    \/ RebuildOptimizer
    \/ UnfreezeRecompile
    \/ Fit2Call
    \/ Fit2Return
    \/ StripPruning
    \/ StoreModel

Spec == Init /\ [][Next]_vars

\* ================================================================ claims
\* where a step stands in the trace (0: not taken)
Position(name) ==
    IF Contains(trace, name) THEN IndexOf(trace, name) ELSE 0

Count(s, x) == Cardinality({i \in 1..Len(s) : s[i] = x})

IsPipelineStep(name) ==
    name \in {"dataset_split", "select_family", "construct_model", "fit1_call",
              "unfreeze_recompile", "fit2_call", "store"}

PipelineOrder ==
    <<"dataset_split", "select_family", "construct_model", "fit1_call",
      "unfreeze_recompile", "fit2_call", "store">>

\* C1: the pipeline steps (data set split, model family, train model, first
\* fit, unfreeze and recompile, second fit, final store) are taken in this
\* order, each at most once, and each exactly once in a run that ends without
\* an error; the second fit never starts before the recompile, and the final
\* model is never stored before the second fit has returned.
C1_PipelineOrder ==
    LET taken == SelectSeq(trace, IsPipelineStep)
    IN  /\ Len(taken) <= Len(PipelineOrder)
        /\ taken = SubSeq(PipelineOrder, 1, Len(taken))
        /\ pc = "done" => taken = PipelineOrder
        /\ error = None /\ pc # "done" => ENABLED Next
        /\ Contains(trace, "fit2_call")
             => /\ Position("fit1_return") > 0
                /\ Position("fit1_return") < Position("unfreeze_recompile")
                /\ Position("unfreeze_recompile") < Position("fit2_call")
        /\ Contains(trace, "store")
             => /\ Position("fit2_return") > Position("fit2_call")
                /\ Position("fit2_return") < Position("store")
        /\ Len(fits) = Count(trace, "fit1_call") + Count(trace, "fit2_call")

C1_Witness ==
    /\ pc = "done"
    /\ error = None
    /\ Len(fits) = 2
    /\ fits[1].trained # << >>
    /\ fits[2].trained # << >>
    /\ files # {}

\* the prefixes of model_type and what each one selects
PrefixTable ==
    { <<<<"s", "c", "a", "l", "e", "d", "_", "y", "o", "l", "o", "4", "_">>,
        "get_yolo5_train_model", "yolo5_data_generator_wrapper", FALSE>>,
      <<<<"y", "o", "l", "o", "5", "_">>,
        "get_yolo5_train_model", "yolo5_data_generator_wrapper", FALSE>>,
      <<<<"y", "o", "l", "o", "3", "_">>,
        "get_yolo3_train_model", "yolo3_data_generator_wrapper", FALSE>>,
      <<<<"y", "o", "l", "o", "4", "_">>,
        "get_yolo3_train_model", "yolo3_data_generator_wrapper", FALSE>>,
      <<<<"t", "i", "n", "y", "_", "y", "o", "l", "o", "3", "_">>,
        "get_yolo3_train_model", "yolo3_data_generator_wrapper", TRUE>>,
      <<<<"t", "i", "n", "y", "_", "y", "o", "l", "o", "4", "_">>,
        "get_yolo3_train_model", "yolo3_data_generator_wrapper", TRUE>>,
      <<<<"y", "o", "l", "o", "2", "_">>,
        "get_yolo2_train_model", "yolo2_data_generator_wrapper", FALSE>>,
      <<<<"t", "i", "n", "y", "_", "y", "o", "l", "o", "2", "_">>,
        "get_yolo2_train_model", "yolo2_data_generator_wrapper", FALSE>> }

\* main is past the model type dispatch
Dispatched ==
    /\ pc \notin {"start", "callbacks", "dataset", "input_shape", "model_type"}
    /\ error # "AssertionError"

\* C2: the model family is decided by the prefix of model_type alone: each of
\* the eight prefixes selects its constructor, data generator and
\* tiny_version, the model is built by that constructor and every fit is fed
\* by that generator; any other model_type raises ValueError, and then no
\* model is constructed, no fit is called and nothing is stored.
C2_FamilyByPrefix ==
    LET hits == {e \in PrefixTable : startswith(args.model_type, e[1])}
    IN  Dispatched =>
          IF hits = {}
          THEN /\ pc = "raised"
               /\ error = "ValueError"
               /\ family = NoFamily
               /\ model = NoModel
               /\ fits = << >>
               /\ files = {}
               /\ ~Contains(trace, "store")
          ELSE /\ error = None
               /\ \A e \in hits :
                    /\ family.get_train_model = e[2]
                    /\ family.data_generator = e[3]
                    /\ family.tiny_version = e[4]
                    /\ model.built => model.constructor = e[2]
                    /\ \A i \in 1..Len(fits) : fits[i].data_generator = e[3]

C2_Witness ==
    /\ pc = "done"
    /\ startswith(args.model_type, <<"t", "i", "n", "y", "_", "y", "o", "l", "o", "4", "_">>)
    /\ family.tiny_version
    /\ model.constructor = "get_yolo3_train_model"
    /\ Len(fits) = 2

\* the levels at which the first fit trains with layers frozen, by the CLI
C3_FrozenByOptions ==
    \/ args.freeze_level \in {1, 2}
    \/ args.freeze_level = NoneInt /\ args.weights_path \in {None, ""}

\* C3 as stated: the first fit always trains with a freeze level of at least
\* 1, the second with every layer trainable after a recompile.
C3_AlwaysFrozenFirst ==
    /\ Len(fits) >= 1 => fits[1].freeze_level >= 1
    /\ Len(fits) >= 2 => \A i \in 1..NumLayers : fits[2].trainable[i]

\* C3 amended: the first fit trains with the freeze level main derives from
\* the options, which is at least 1 exactly when --freeze_level is 1 or 2, or
\* is not given and no weights_path is given either; the second fit trains
\* with every layer trainable, the model having been recompiled, with main's
\* current optimizer, after the layers were unfrozen.
C3_FreezeThenUnfreeze ==
    /\ Len(fits) >= 1 =>
         /\ fits[1].freeze_level >= 1 <=> C3_FrozenByOptions
         /\ fits[1].freeze_level \in {0, 1, 2}
         /\ args.freeze_level # NoneInt => fits[1].freeze_level = args.freeze_level
    /\ Len(fits) >= 2 =>
         /\ \A i \in 1..NumLayers : fits[2].trainable[i]
         /\ Len(fits[2].trainable) = NumLayers
         /\ fits[2].optimizer = optimizer
         /\ Position("unfreeze_recompile") > Position("fit1_return")
         /\ Position("unfreeze_recompile") < Position("fit2_call")

C3_Witness ==
    /\ pc = "done"
    /\ Len(fits) = 2
    /\ fits[1].freeze_level = 0
    /\ args.freeze_level = NoneInt
    /\ fits[1].trained # << >>
    /\ fits[2].trained # << >>
    /\ \A i \in 1..NumLayers : fits[2].trainable[i]

\* the epochs first .. last - 1 in increasing order
EpochRange(first, last) == [i \in 1..Max(last - first, 0) |-> first + i - 1]

\* C4: when no callback stops a fit early, the first fit trains the epochs
\* init_epoch .. init_epoch + transfer_epoch - 1 and the second the epochs
\* init_epoch + transfer_epoch .. total_epoch - 1; every epoch of
\* [init_epoch, total_epoch) is trained exactly once, and no epoch numbered
\* total_epoch or higher is ever trained.
C4_EpochSchedule ==
    LET both == fits[1].trained \o fits[2].trained
    IN  /\ \A i \in 1..Len(fits) : \A j \in 1..Len(fits[i].trained) :
             fits[i].trained[j] < args.total_epoch
        /\ pc = "done" /\ ~fits[1].stopped /\ ~fits[2].stopped =>
             /\ fits[1].trained =
                  EpochRange(args.init_epoch, args.init_epoch + args.transfer_epoch)
             /\ fits[2].trained =
                  EpochRange(args.init_epoch + args.transfer_epoch, args.total_epoch)
             /\ \A e \in args.init_epoch..(args.total_epoch - 1) : Count(both, e) = 1
             /\ \A j \in 1..(Len(both) - 1) : both[j] < both[j + 1]

\* main is past the data set split
SplitDone == pc \notin {"start", "callbacks", "dataset"}

\* the samples of a list
Elements(s) == {s[i] : i \in 1..Len(s)}

\* C5: after the split num_train + num_val is the length of the data set, and
\* dataset[:num_train] and dataset[num_train:] are disjoint and together the
\* whole data set.  With a val annotation file the two slices are the two
\* annotation lists; without one num_val is len(dataset) * val_split cut to an
\* integer.  With data_shuffle off both fits train on the same training slice
\* and validate on the same validation slice.
C5_DatasetSplit ==
    SplitDone =>
      /\ num_train + num_val = Len(dataset)
      /\ SliceTo(dataset, num_train) \o SliceFrom(dataset, num_train) = dataset
      /\ Elements(SliceTo(dataset, num_train))
           \cap Elements(SliceFrom(dataset, num_train)) = {}
      /\ args.val_annotation_file \notin {None, ""} =>
           /\ num_train = Len(annotations.train)
           /\ num_val = Len(annotations.val)
           /\ Len(fits) >= 1 =>
                fits[1].train = annotations.train /\ fits[1].val = annotations.val
           /\ ~args.data_shuffle =>
                /\ SliceTo(dataset, num_train) = annotations.train
                /\ SliceFrom(dataset, num_train) = annotations.val
      /\ args.val_annotation_file \in {None, ""} =>
           /\ Len(dataset) = Len(annotations.train)
           /\ IF args.val_split >= 0
              THEN /\ 10 * num_val <= Len(dataset) * args.val_split
                   /\ Len(dataset) * args.val_split < 10 * (num_val + 1)
              ELSE /\ 10 * num_val >= Len(dataset) * args.val_split
                   /\ Len(dataset) * args.val_split > 10 * (num_val - 1)
      /\ ~args.data_shuffle /\ Len(fits) = 2 =>
           fits[1].train = fits[2].train /\ fits[1].val = fits[2].val
      /\ ~args.data_shuffle =>
           \A i \in 1..Len(fits) :
             /\ fits[i].train = SliceTo(dataset, num_train)
             /\ fits[i].val = SliceFrom(dataset, num_train)

C5_Witness ==
    /\ pc = "done"
    /\ ~args.data_shuffle
    /\ args.val_annotation_file = "file"
    /\ Len(fits) = 2
    /\ fits[2].train # << >>
    /\ fits[2].val # << >>
    /\ fits[2].trained # << >>

\* the files of logs/000 that are not epoch checkpoints
FinalArtifacts == {f \in files : f.dir = "logs/000" /\ f.name[1] # "ep"}

\* C6: the final store writes one kind of artifact: with
\* quantize_aware_training trained_last.h5 and trained_last_uint8.tflite in
\* logs/000 and no trained_final.h5, otherwise trained_final.h5 alone; nothing
\* of the kind is written before.  With model_pruning the pruning wrappers
\* stay on the model through both fits and are stripped after the second fit
\* returns and before the store.
C6_FinalStore ==
    /\ pc # "done" => FinalArtifacts = {}
    /\ pc = "done" /\ args.quantize_aware_training =>
         FinalArtifacts =
           { [dir |-> "logs/000", name |-> <<"trained_", "l", "a", "s", "t", ".h5">>],
             [dir |-> "logs/000",
              name |-> <<"trained_", "l", "a", "s", "t", "_uint8.tflite">>] }
    /\ pc = "done" /\ ~args.quantize_aware_training =>
         FinalArtifacts = {[dir |-> "logs/000", name |-> <<"trained_final.h5">>]}
    /\ args.model_pruning =>
         /\ pc \in {"fit1", "fit1_loop", "second_stage", "unfreeze", "fit2", "fit2_loop",
                    "strip"} => model.pruning
         /\ pc \in {"store", "done"} =>
              /\ ~model.pruning
              /\ Position("strip_pruning") > Position("fit2_return")
              /\ Position("fit2_return") > 0
         /\ pc = "done" => Position("strip_pruning") < Position("store")

C6_Witness ==
    /\ pc = "done"
    /\ args.quantize_aware_training
    /\ args.model_pruning
    /\ ~model.pruning
    /\ Cardinality(FinalArtifacts) = 2
    /\ fits[2].trained # << >>

\* callback a stands before callback b in list cbs
Before(cbs, a, b) ==
    \E i, j \in 1..Len(cbs) : i < j /\ cbs[i] = a /\ cbs[j] = b

\* C7: in the callback list of every fit the online evaluation callback and
\* the averaging checkpoint callback, when present, stand before the
\* checkpoint-clean callback.
C7_BeforeCheckpointClean ==
    \A k \in 1..Len(fits) :
      \A cb \in {"eval_callback", "avg_checkpoint"} :
        Contains(fits[k].callbacks, cb) =>
          Before(fits[k].callbacks, cb, "checkpoint_clean")

\* C8: QuantizeModelCheckpoint writes at the end of an epoch only when that
\* epoch's val_loss is lower than the val_loss of every earlier epoch.
C8_QuantSavesBestOnly ==
    last_epoch.quant_saved =>
      \A x \in last_epoch.earlier : last_epoch.val_loss < x

\* C9: the first fit uses an optimizer built with decay_type None and
\* average_type None and has ReduceLROnPlateau among its callbacks; the
\* optimizer of the second fit is rebuilt with the requested decay_type and
\* average_type exactly when one of them is set; ReduceLROnPlateau is among
\* the callbacks of the second fit exactly when decay_type is not set; no fit
\* has both a decay schedule and ReduceLROnPlateau.
C9_DecayAfterUnfreeze ==
    /\ Len(fits) >= 1 =>
         /\ fits[1].optimizer.decay_type = None
         /\ fits[1].optimizer.average_type = None
         /\ Count(fits[1].callbacks, "reduce_lr") = 1
    /\ Len(fits) >= 2 =>
         /\ IF args.decay_type # None \/ args.average_type # None
            THEN /\ fits[2].optimizer.decay_type = args.decay_type
                 /\ fits[2].optimizer.average_type = args.average_type
            ELSE fits[2].optimizer = fits[1].optimizer
         /\ Contains(fits[2].callbacks, "reduce_lr") <=> args.decay_type = None
    /\ \A k \in 1..Len(fits) :
         ~(fits[k].optimizer.decay_type # None /\ Contains(fits[k].callbacks, "reduce_lr"))

C9_Witness ==
    /\ pc = "done"
    /\ args.decay_type = "cosine"
    /\ args.average_type = "lookahead"
    /\ fits[2].optimizer.decay_type = "cosine"
    /\ ~Contains(fits[2].callbacks, "reduce_lr")
    /\ fits[1].trained # << >>
    /\ fits[2].trained # << >>

\* the callbacks of a list that write a checkpoint to logs/000 when val_loss
\* improves
BestWriters(cbs) ==
    {i \in 1..Len(cbs) : cbs[i] \in {"checkpoint", "avg_checkpoint"}}

\* C10: every fit has exactly one val_loss best-model checkpoint writer for
\* logs/000 among its callbacks: the plain ModelCheckpoint in the first fit;
\* in the second the AverageModelCheckpoint when average_type is ema or swa
\* and the plain ModelCheckpoint otherwise.  Every other callback of the
\* first fit, ReduceLROnPlateau apart, is still a callback of the second.
C10_OneBestWriter ==
    /\ \A k \in 1..Len(fits) : Cardinality(BestWriters(fits[k].callbacks)) = 1
    /\ Len(fits) >= 1 => Contains(fits[1].callbacks, "checkpoint")
    /\ Len(fits) >= 2 =>
         /\ IF args.average_type \in {"ema", "swa"}
            THEN Contains(fits[2].callbacks, "avg_checkpoint")
            ELSE Contains(fits[2].callbacks, "checkpoint")
         /\ \A i \in 1..Len(fits[1].callbacks) :
              fits[1].callbacks[i] \notin {"reduce_lr", "checkpoint"}
                => Count(fits[2].callbacks, fits[1].callbacks[i]) = 1

C10_Witness ==
    /\ pc = "done"
    /\ args.average_type = "swa"
    /\ args.quantize_aware_training
    /\ args.data_shuffle
    /\ Contains(fits[2].callbacks, "avg_checkpoint")
    /\ ~Contains(fits[2].callbacks, "checkpoint")
    /\ fits[2].trained # << >>

====
